---------------------------- MODULE Spec2Model ----------------------------
(***************************************************************************)
(* ExpenseTracker: the Express routes of src/src/routes.js over the        *)
(* Mongoose models of src/src/models.js.                                   *)
(*                                                                         *)
(* The state is the content of the three MongoDB collections plus the      *)
(* requests in flight.  Every route handler is an async function: each     *)
(* `await` on the store is one step of the handler, so handlers of         *)
(* different requests interleave at those points.  The four                *)
(* transaction-recording routes run inside a MongoDB session transaction   *)
(* (snapshot reads, own writes visible, first writer wins on a document,   *)
(* the loser gets a WriteConflict error); the other routes write single    *)
(* documents outside any transaction.                                      *)
(*                                                                         *)
(* Request bodies are JSON: amounts are JSON numbers (integers here), ids  *)
(* are strings.  "none" stands for an absent (undefined) field.            *)
(***************************************************************************)
EXTENDS Integers, FiniteSets, Sequences, Bags, TLC

VARIABLES
    accounts,       \* BankAccount collection: _id -> [accountNumber, balance]
    transactions,   \* Transaction collection: a bag of documents
    debts,          \* Debt collection: _id -> document
    uniqueIndex,    \* whether the unique index on accountNumber has been built
    reqs            \* per client: the request in flight, or its response

vars == <<accounts, transactions, debts, uniqueIndex, reqs>>

-----------------------------------------------------------------------------
(* Bounds of the model *)

MaxAccounts == 2        \* BankAccount documents that may be created
MaxTransactions == 2    \* Transaction documents that may be persisted
MaxDebts == 1           \* Debt documents that may be created

Clients == {"c1", "c2"} \* requests that may be in flight at once

None == "none"          \* JavaScript undefined

\* ObjectIds the store generates, in order of creation.
AccountOid == <<"a1", "a2", "a3", "a4">>
DebtOid == <<"d1", "d2", "d3">>
AccountIds == {AccountOid[i] : i \in 1..MaxAccounts}
DebtIds == {DebtOid[i] : i \in 1..MaxDebts}
\* A well-formed ObjectId that no document carries.
NoSuchId == "f0"
\* Every string that casts to an ObjectId.
ObjectIds == AccountIds \cup DebtIds \cup {NoSuchId}


-----------------------------------------------------------------------------
(* JavaScript and Mongoose helpers *)

\* !v for a string field of the body: undefined is falsy.
Missing(v) == v = None

\* !v for a numeric field of the body: 0 is falsy.
Zero(v) == v = 0

\* typeof amount for the amount of a JSON body: a number, or a string that
\* holds a numeral (digits only, no sign, no leading zero), kept in the body
\* by its value.
AmountTypes == {"number", "string"}

\* !amount: a number is falsy when 0; a string only when empty, which a
\* numeral is not.
NoAmount(body) == body.amountType = "number" /\ Zero(body.amount)

\* The number of digits of the numeral of n >= 0.
RECURSIVE Width(_)
Width(n) == IF n < 10 THEN 1 ELSE 1 + Width(n \div 10)

RECURSIVE Pow10(_)
Pow10(d) == IF d = 0 THEN 1 ELSE 10 * Pow10(d - 1)

\* Number(String(n) + amount): the number Mongoose casts the concatenation
\* of n's numeral and the numeral `amount` to when it is set on a Number path.
Concatenated(n, amount) ==
    IF n < 0 THEN n * Pow10(Width(amount)) - amount
    ELSE n * Pow10(Width(amount)) + amount

\* n += amount on a Number path: addition for a number, string
\* concatenation (then the cast back to Number) for a string.
Plus(n, amount, amountType) ==
    IF amountType = "string" THEN Concatenated(n, amount) ELSE n + amount

\* Mongoose's cast of a path of type ObjectId: undefined stays undefined, a
\* string that is no ObjectId is a CastError.
CastsToObjectId(v) == v = None \/ v \in ObjectIds

EmptyMap == <<>>

\* The Transaction document `new Transaction({...})` builds: paths not given
\* stay undefined, type defaults to "expense".
NewTransaction(description, amount, type, sourceAccount, destinationAccount, debt) ==
    [description |-> description, amount |-> amount,
     type |-> IF type = None THEN "expense" ELSE type,
     sourceAccount |-> sourceAccount, destinationAccount |-> destinationAccount,
     debt |-> debt]

TransactionTypes == {"income", "expense", "self-transfer", "debt"}

\* Mongoose validation on save of a Transaction: description is required,
\* type is in the enum, the three references cast to ObjectId.  (amount is
\* required too; it is a number whenever a handler gets this far.)
TransactionValid(t) ==
    /\ t.description # None
    /\ t.type \in TransactionTypes
    /\ CastsToObjectId(t.sourceAccount)
    /\ CastsToObjectId(t.destinationAccount)
    /\ CastsToObjectId(t.debt)

-----------------------------------------------------------------------------
(* Sessions: mongoose.startSession() / session.startTransaction() *)

\* A session's transaction.  The snapshot is taken by its first operation.
NoSession ==
    [open |-> FALSE, started |-> FALSE,
     accounts |-> EmptyMap, debts |-> EmptyMap,
     stale |-> {}, inserted |-> EmptyBag,
     accountWrites |-> EmptyMap, debtWrites |-> EmptyMap]

StartTransaction == [NoSession EXCEPT !.open = TRUE]

\* The first operation of a transaction fixes its read snapshot.
Snapshot(s) ==
    IF s.started THEN s
    ELSE [s EXCEPT !.started = TRUE, !.accounts = accounts, !.debts = debts]

Idle ==
    [op |-> None, pc |-> "idle", body |-> EmptyMap, session |-> NoSession,
     local |-> EmptyMap, status |-> 0, error |-> None]

\* The response sent to the request `body` of route `op`.
Response(op, body, status, error) ==
    [Idle EXCEPT !.op = op, !.pc = "done", !.body = body,
                 !.status = status, !.error = error]

\* A throw inside try: control goes to the catch block, which aborts.
Throw(r, error) == [r EXCEPT !.pc = "abort", !.error = error, !.local = EmptyMap]

\* Documents another open transaction has written and not yet committed.
LockedBy(c) ==
    DOMAIN reqs[c].session.accountWrites \cup DOMAIN reqs[c].session.debtWrites

LockedByOther(c, id) == \E o \in Clients \ {c} : id \in LockedBy(o)

Locked(id) == \E o \in Clients : id \in LockedBy(o)

\* A committed write to documents `ids` makes them stale for every other
\* transaction whose snapshot is older.
MarkStale(rs, c, ids) ==
    [o \in Clients |->
        IF o # c /\ rs[o].session.started
        THEN [rs[o] EXCEPT !.session.stale = @ \cup ids]
        ELSE rs[o]]

SessionAccountStale(s, id) == s.accounts[id]

\* findById inside the session: own writes first, then the snapshot.
SessionAccount(s, id) ==
    IF id \in DOMAIN s.accountWrites
    THEN [s.accounts[id] EXCEPT !.balance = s.accountWrites[id]]
    ELSE s.accounts[id]

SessionHasAccount(s, id) == id \in DOMAIN s.accounts

WriteConflictLocksOnly(c, id) == LockedByOther(c, id)

\* A write inside the transaction conflicts when the document was changed
\* after the snapshot or is held by another transaction.
WriteConflict(c, id) == id \in reqs[c].session.stale \/ LockedByOther(c, id)

InFlight(ops) == Cardinality({c \in Clients : reqs[c].op \in ops /\ reqs[c].pc # "done"})

TransactionOps == {"expense", "income", "self-transfer", "debt-transaction"}

\* A handler sends its response and returns in the same turn of the event
\* loop: no other handler runs in between.
Responding == \E c \in Clients : reqs[c].pc = "done"

\* A client may send a request when it has none in flight.
Ready(c) == reqs[c].pc = "idle" /\ ~Responding

\* The handler of client c resumes at `pc` of route `op`.
At(c, op, pc) == reqs[c].op = op /\ reqs[c].pc = pc /\ ~Responding

\* Room for one more Transaction document, counting those in flight.
RoomForTransaction ==
    BagCardinality(transactions) + InFlight(TransactionOps) < MaxTransactions

-----------------------------------------------------------------------------
(* Steps shared by the transaction-recording handlers *)

DebitAdds(balance, amount) == balance + amount

\* sourceAccountObject.balance -= amount
Debit(balance, amount) == balance - amount

\* destinationAccountObject.balance += amount
Credit(balance, body) == Plus(balance, body.amount, body.amountType)

\* The handler of a request has passed its own validation and goes on.
Accepted(op, body) ==
    [Idle EXCEPT !.op = op, !.pc = "saveTransaction", !.body = body,
                 !.session = StartTransaction]

\* The handler's validation threw: the catch block is next.
Rejected(op, body, error) ==
    [Idle EXCEPT !.op = op, !.pc = "abort", !.body = body, !.error = error,
                 !.session = StartTransaction]

\* await document.save({ session }) of a new Transaction: validated, then
\* inserted in the session's transaction.
SaveTransaction(r, t, next) ==
    IF TransactionValid(t)
    THEN [r EXCEPT !.pc = next,
                   !.session = [Snapshot(@) EXCEPT !.inserted = @ (+) SetToBag({t})]]
    ELSE Throw(r, "ValidationError")

\* await BankAccount.findById(id).session(session) and the not-found throw:
\* the loaded document is kept in `local`.
FindAccount(r, id, error, next) ==
    LET s == Snapshot(r.session) IN
    IF ~CastsToObjectId(id) THEN Throw(r, "CastError")
    ELSE IF ~SessionHasAccount(s, id) THEN Throw(r, error)
    ELSE [r EXCEPT !.pc = next, !.session = s,
                   !.local = [id |-> id, balance |-> SessionAccount(s, id).balance]]

\* The loaded document's balance is changed to `balance`, then
\* await account.save(): the document came from a query of the session, so
\* the update is part of the session's transaction.
SaveAccount(c, balance, next) ==
    LET r == reqs[c] IN
    IF WriteConflict(c, r.local.id) THEN Throw(r, "WriteConflict")
    ELSE [r EXCEPT !.pc = next,
                   !.session.accountWrites = (r.local.id :> balance) @@ @]

UnchangedStore == UNCHANGED <<accounts, transactions, debts, uniqueIndex>>

-----------------------------------------------------------------------------
(* POST /transactions/expense *)


ExpenseRequest(c, bodies) ==
    /\ Ready(c)
    /\ \E body \in bodies :
        IF Missing(body.description) \/ NoAmount(body) \/ Missing(body.sourceAccount)
        THEN reqs' = [reqs EXCEPT ![c] = Rejected("expense", body, "required fields")]
        ELSE /\ RoomForTransaction
             /\ reqs' = [reqs EXCEPT ![c] = Accepted("expense", body)]
    /\ UnchangedStore

ExpenseTransaction(body) ==
    NewTransaction(body.description, body.amount, "expense", body.sourceAccount, None, None)

ExpenseSave(c) ==
    /\ At(c, "expense", "saveTransaction")
    /\ reqs' = [reqs EXCEPT ![c] =
                    SaveTransaction(@, ExpenseTransaction(@.body), "findSource")]
    /\ UnchangedStore

ExpenseFindSource(c) ==
    /\ At(c, "expense", "findSource")
    /\ reqs' = [reqs EXCEPT ![c] =
                    FindAccount(@, @.body.sourceAccount,
                                "Source account not found.", "saveSource")]
    /\ UnchangedStore

ExpenseSaveSource(c) ==
    /\ At(c, "expense", "saveSource")
    /\ reqs' = [reqs EXCEPT ![c] =
                    SaveAccount(c, Debit(reqs[c].local.balance, reqs[c].body.amount), "commit")]
    /\ UnchangedStore

-----------------------------------------------------------------------------
(* POST /transactions/income *)


IncomeRequest(c, bodies) ==
    /\ Ready(c)
    /\ \E body \in bodies :
        IF Missing(body.description) \/ NoAmount(body) \/ Missing(body.destinationAccount)
        THEN reqs' = [reqs EXCEPT ![c] = Rejected("income", body, "required fields")]
        ELSE /\ RoomForTransaction
             /\ reqs' = [reqs EXCEPT ![c] = Accepted("income", body)]
    /\ UnchangedStore

IncomeTransaction(body) ==
    NewTransaction(body.description, body.amount, "income", None, body.destinationAccount, None)

IncomeSave(c) ==
    /\ At(c, "income", "saveTransaction")
    /\ reqs' = [reqs EXCEPT ![c] =
                    SaveTransaction(@, IncomeTransaction(@.body), "findDestination")]
    /\ UnchangedStore

IncomeFindDestination(c) ==
    /\ At(c, "income", "findDestination")
    /\ reqs' = [reqs EXCEPT ![c] =
                    FindAccount(@, @.body.destinationAccount,
                                "Destination account not found.", "saveDestination")]
    /\ UnchangedStore

IncomeSaveDestination(c) ==
    /\ At(c, "income", "saveDestination")
    /\ reqs' = [reqs EXCEPT ![c] =
                    SaveAccount(c, Credit(reqs[c].local.balance, reqs[c].body), "commit")]
    /\ UnchangedStore

-----------------------------------------------------------------------------
(* POST /transactions/self-transfer *)


SelfTransferRequest(c, bodies) ==
    /\ Ready(c)
    /\ \E body \in bodies :
        IF NoAmount(body) \/ Missing(body.sourceAccount) \/ Missing(body.destinationAccount)
        THEN reqs' = [reqs EXCEPT ![c] = Rejected("self-transfer", body, "required fields")]
        ELSE /\ RoomForTransaction
             /\ reqs' = [reqs EXCEPT ![c] = Accepted("self-transfer", body)]
    /\ UnchangedStore

SelfTransferTransaction(body) ==
    NewTransaction(body.description, body.amount, "self-transfer",
                   body.sourceAccount, body.destinationAccount, None)

SelfTransferSave(c) ==
    /\ At(c, "self-transfer", "saveTransaction")
    /\ reqs' = [reqs EXCEPT ![c] =
                    SaveTransaction(@, SelfTransferTransaction(@.body), "findSource")]
    /\ UnchangedStore

SelfTransferFindSource(c) ==
    /\ At(c, "self-transfer", "findSource")
    /\ reqs' = [reqs EXCEPT ![c] =
                    FindAccount(@, @.body.sourceAccount,
                                "Source account not found.", "saveSource")]
    /\ UnchangedStore

SelfTransferSaveSource(c) ==
    /\ At(c, "self-transfer", "saveSource")
    /\ reqs' = [reqs EXCEPT ![c] =
                    SaveAccount(c, Debit(reqs[c].local.balance, reqs[c].body.amount), "findDestination")]
    /\ UnchangedStore

SelfTransferFindDestination(c) ==
    /\ At(c, "self-transfer", "findDestination")
    /\ reqs' = [reqs EXCEPT ![c] =
                    FindAccount(@, @.body.destinationAccount,
                                "Destination account not found.", "saveDestination")]
    /\ UnchangedStore

SelfTransferSaveDestination(c) ==
    /\ At(c, "self-transfer", "saveDestination")
    /\ reqs' = [reqs EXCEPT ![c] =
                    SaveAccount(c, Credit(reqs[c].local.balance, reqs[c].body), "commit")]
    /\ UnchangedStore

-----------------------------------------------------------------------------
(* POST /bank-accounts *)

AccountNumberTaken(accountNumber) ==
    \E id \in DOMAIN accounts : accounts[id].accountNumber = accountNumber

\* The checks before the insert and the findOne: the first await.
CreateAccountRequest(c, accountNumbers) ==
    /\ Ready(c)
    /\ \E accountNumber \in accountNumbers :
        IF Missing(accountNumber)
        THEN reqs' = [reqs EXCEPT ![c] =
                        Response("create-account", [accountNumber |-> accountNumber], 400,
                                 "Account number is a required field.")]
        ELSE IF AccountNumberTaken(accountNumber)
        THEN reqs' = [reqs EXCEPT ![c] =
                        Response("create-account", [accountNumber |-> accountNumber], 400,
                                 "Account with the same account number already exists.")]
        ELSE /\ Cardinality(DOMAIN accounts) + InFlight({"create-account"}) < MaxAccounts
             /\ reqs' = [reqs EXCEPT ![c] =
                            [Idle EXCEPT !.op = "create-account", !.pc = "save",
                                         !.body = [accountNumber |-> accountNumber]]]
    /\ UnchangedStore

\* The insert is refused (E11000) when the unique index exists and holds
\* the accountNumber already.
DuplicateKey(accountNumber) == uniqueIndex /\ AccountNumberTaken(accountNumber)

\* await newBankAccount.save(): the insert, or the catch block.
CreateAccountSave(c) ==
    /\ At(c, "create-account", "save")
    /\ LET accountNumber == reqs[c].body.accountNumber
           id == AccountOid[Cardinality(DOMAIN accounts) + 1]
       IN  IF DuplicateKey(accountNumber)
           THEN /\ reqs' = [reqs EXCEPT ![c] = Response("create-account", @.body, 500, "E11000")]
                /\ UNCHANGED accounts
           ELSE /\ accounts' = (id :> [accountNumber |-> accountNumber, balance |-> 0]) @@ accounts
                /\ reqs' = [reqs EXCEPT ![c] = Response("create-account", @.body, 201, None)]
    /\ UNCHANGED <<transactions, debts, uniqueIndex>>

-----------------------------------------------------------------------------
(* PATCH /bank-accounts/:accountId/update-balance *)

\* !newBalance || isNaN(newBalance)
InvalidNewBalance(newBalance) ==
    \/ newBalance.kind = "undefined"
    \/ newBalance.kind = "number" /\ newBalance.value = 0
    \/ newBalance.kind = "string"

\* The validation and the findById: the first await.
UpdateBalanceRequest(c, accountIds, newBalances) ==
    /\ Ready(c)
    /\ \E accountId \in accountIds, newBalance \in newBalances :
        LET body == [accountId |-> accountId, newBalance |-> newBalance] IN
        reqs' = [reqs EXCEPT ![c] =
            IF InvalidNewBalance(newBalance)
            THEN Response("update-balance", body, 400, "New balance must be a valid number.")
            ELSE IF ~CastsToObjectId(accountId)
            THEN Response("update-balance", body, 500, "CastError")
            ELSE IF accountId \notin DOMAIN accounts
            THEN Response("update-balance", body, 404, "Bank account not found.")
            ELSE [Idle EXCEPT !.op = "update-balance", !.pc = "save", !.body = body,
                              !.local = [id |-> accountId, balance |-> newBalance.value,
                                         loaded |-> accounts[accountId].balance]]]
    /\ UnchangedStore

\* await bankAccount.save(): an update of the modified path, outside any
\* transaction; it waits while a transaction holds the document.  A
\* document that was not modified is not written.
UpdateBalanceSave(c) ==
    /\ At(c, "update-balance", "save")
    /\ LET l == reqs[c].local IN
        IF l.balance = l.loaded
        THEN /\ reqs' = [reqs EXCEPT ![c] = Response("update-balance", @.body, 200, None)]
             /\ UNCHANGED accounts
        ELSE /\ ~Locked(l.id)
             /\ accounts' = [accounts EXCEPT ![l.id].balance = l.balance]
             /\ reqs' = [MarkStale(reqs, c, {l.id}) EXCEPT
                            ![c] = Response("update-balance", @.body, 200, None)]
    /\ UNCHANGED <<transactions, debts, uniqueIndex>>

-----------------------------------------------------------------------------
(* POST /debts *)

DebtStatuses == {"pending", "settled"}
DebtTypes == {"negative", "positive"}

\* Mongoose validation on save of a Debt: the enums of status and type and
\* the casts of the two account references.  (The three amounts are
\* required; the bodies here always carry them.)
DebtValid(d) ==
    /\ d.status \in DebtStatuses
    /\ d.type \in DebtTypes
    /\ CastsToObjectId(d.debtorAccount)
    /\ CastsToObjectId(d.creditorAccount)

\* The handler's own check of the body.
DebtFieldsMissing(body) ==
    \/ Missing(body.description)
    \/ Zero(body.totalAmount)
    \/ Missing(body.status)
    \/ Missing(body.type)
    \/ (Missing(body.debtor) /\ Missing(body.debtorAccount))
    \/ (Missing(body.creditor) /\ Missing(body.creditorAccount))

\* One await: newDebt.save(), outside any transaction.
CreateDebt(c, bodies) ==
    /\ Ready(c)
    /\ \E body \in bodies :
        IF DebtFieldsMissing(body)
        THEN /\ reqs' = [reqs EXCEPT ![c] =
                            Response("create-debt", body, 400, "Required fields are missing.")]
             /\ UNCHANGED debts
        ELSE IF ~DebtValid(body)
        THEN /\ reqs' = [reqs EXCEPT ![c] = Response("create-debt", body, 500, "ValidationError")]
             /\ UNCHANGED debts
        ELSE /\ Cardinality(DOMAIN debts) < MaxDebts
             /\ debts' = (DebtOid[Cardinality(DOMAIN debts) + 1] :> body) @@ debts
             /\ reqs' = [reqs EXCEPT ![c] = Response("create-debt", body, 201, None)]
    /\ UNCHANGED <<accounts, transactions, uniqueIndex>>

-----------------------------------------------------------------------------
(* PATCH /debts/:debtId/update-status *)

InvalidStatusLax(newStatus) == Missing(newStatus)

\* !newStatus || !["pending", "settled"].includes(newStatus)
InvalidStatus(newStatus) == Missing(newStatus) \/ newStatus \notin {"pending", "settled"}

\* The validation and the findById: the first await.
UpdateStatusRequest(c, debtIds, statuses) ==
    /\ Ready(c)
    /\ \E debtId \in debtIds, newStatus \in statuses :
        LET body == [debtId |-> debtId, newStatus |-> newStatus] IN
        reqs' = [reqs EXCEPT ![c] =
            IF InvalidStatus(newStatus)
            THEN Response("update-status", body, 400, "Invalid status provided.")
            ELSE IF ~CastsToObjectId(debtId)
            THEN Response("update-status", body, 500, "CastError")
            ELSE IF debtId \notin DOMAIN debts
            THEN Response("update-status", body, 404, "Debt not found.")
            ELSE [Idle EXCEPT !.op = "update-status", !.pc = "save", !.body = body,
                              !.local = [id |-> debtId, status |-> newStatus,
                                         loaded |-> debts[debtId].status]]]
    /\ UnchangedStore

\* await debt.save(): an update of the modified path, outside any
\* transaction; it waits while a transaction holds the document.
UpdateStatusSave(c) ==
    /\ At(c, "update-status", "save")
    /\ LET l == reqs[c].local IN
        IF l.status = l.loaded
        THEN /\ reqs' = [reqs EXCEPT ![c] = Response("update-status", @.body, 200, None)]
             /\ UNCHANGED debts
        ELSE /\ ~Locked(l.id)
             /\ debts' = [debts EXCEPT ![l.id].status = l.status]
             /\ reqs' = [MarkStale(reqs, c, {l.id}) EXCEPT
                            ![c] = Response("update-status", @.body, 200, None)]
    /\ UNCHANGED <<accounts, transactions, uniqueIndex>>

-----------------------------------------------------------------------------
(* POST /debts/:debtId/transactions *)

DebtTransactionRequest(c, bodies) ==
    /\ Ready(c)
    /\ \E body \in bodies :
        IF \/ Missing(body.description) \/ NoAmount(body)
           \/ Missing(body.type) \/ Missing(body.sourceAccount)
        THEN reqs' = [reqs EXCEPT ![c] = Rejected("debt-transaction", body, "required fields")]
        ELSE /\ RoomForTransaction
             /\ reqs' = [reqs EXCEPT ![c] =
                            [Accepted("debt-transaction", body) EXCEPT !.pc = "findDebt"]]
    /\ UnchangedStore

\* await Debt.findById(debtId).session(session)
DebtTransactionFindDebt(c) ==
    /\ At(c, "debt-transaction", "findDebt")
    /\ LET r == reqs[c]
           s == Snapshot(r.session)
       IN  reqs' = [reqs EXCEPT ![c] =
                IF ~CastsToObjectId(r.body.debtId) THEN Throw(r, "CastError")
                ELSE IF r.body.debtId \notin DOMAIN s.debts THEN Throw(r, "Debt not found.")
                ELSE [r EXCEPT !.pc = "saveTransaction", !.session = s]]
    /\ UnchangedStore

DebtTransactionTransaction(body) ==
    NewTransaction(body.description, body.amount, body.type,
                   body.sourceAccount, None, body.debtId)

DebtTransactionSave(c) ==
    /\ At(c, "debt-transaction", "saveTransaction")
    /\ reqs' = [reqs EXCEPT ![c] =
                    SaveTransaction(@, DebtTransactionTransaction(@.body), "findAccount")]
    /\ UnchangedStore

\* debt.type === "positive"
IsPositiveDebt(debt) == debt.type = "positive"

\* isPositiveDebt ? debt.debtor : debt.creditor
AccountToUpdate(debt) == IF IsPositiveDebt(debt) THEN debt.debtor ELSE debt.creditor

\* account.balance += isPositiveDebt ? amount : -amount
DebtBalance(balance, debt, body) ==
    IF IsPositiveDebt(debt) THEN Plus(balance, body.amount, body.amountType)
    ELSE balance + (-body.amount)

DebtTransactionFindAccount(c) ==
    /\ At(c, "debt-transaction", "findAccount")
    /\ LET debt == reqs[c].session.debts[reqs[c].body.debtId] IN
       reqs' = [reqs EXCEPT ![c] =
                    FindAccount(@, AccountToUpdate(debt),
                                "Account not found.", "saveAccount")]
    /\ UnchangedStore

DebtTransactionSaveAccount(c) ==
    /\ At(c, "debt-transaction", "saveAccount")
    /\ LET debt == reqs[c].session.debts[reqs[c].body.debtId] IN
       reqs' = [reqs EXCEPT ![c] =
                    SaveAccount(c, DebtBalance(reqs[c].local.balance, debt, reqs[c].body),
                                "saveDebt")]
    /\ UnchangedStore

\* debt.totalAmount += amount; debt.pendingAmount += amount
DebtTotals(debt, body) ==
    [totalAmount |-> Plus(debt.totalAmount, body.amount, body.amountType),
     pendingAmount |-> Plus(debt.pendingAmount, body.amount, body.amountType)]

\* await debt.save(): the two modified paths, in the session's transaction.
DebtTransactionSaveDebt(c) ==
    /\ At(c, "debt-transaction", "saveDebt")
    /\ LET r == reqs[c]
           id == r.body.debtId
       IN  reqs' = [reqs EXCEPT ![c] =
                IF WriteConflict(c, id) THEN Throw(r, "WriteConflict")
                ELSE [r EXCEPT !.pc = "commit",
                               !.session.debtWrites =
                                    (id :> DebtTotals(r.session.debts[id], r.body)) @@ @]]
    /\ UnchangedStore

-----------------------------------------------------------------------------
(* session.commitTransaction() and the catch blocks *)

\* The collections after the session's writes are applied, all at once.
CommittedAccounts(s) ==
    [id \in DOMAIN accounts |->
        IF id \in DOMAIN s.accountWrites
        THEN [accounts[id] EXCEPT !.balance = s.accountWrites[id]]
        ELSE accounts[id]]

CommittedTransactions(s) == transactions (+) s.inserted

CommittedDebts(s) ==
    [id \in DOMAIN debts |->
        IF id \in DOMAIN s.debtWrites
        THEN [debts[id] EXCEPT !.totalAmount = s.debtWrites[id].totalAmount,
                               !.pendingAmount = s.debtWrites[id].pendingAmount]
        ELSE debts[id]]

\* The status of the success response of each route.
SuccessStatus(op) == IF op = "debt-transaction" THEN 201 ELSE 200

\* await session.commitTransaction(); res.json(...)
CommitTransaction(c) ==
    /\ reqs[c].pc = "commit" /\ ~Responding
    /\ LET s == reqs[c].session IN
        /\ accounts' = CommittedAccounts(s)
        /\ transactions' = CommittedTransactions(s)
        /\ debts' = CommittedDebts(s)
        /\ reqs' = [MarkStale(reqs, c, LockedBy(c)) EXCEPT
                        ![c] = Response(reqs[c].op, reqs[c].body, SuccessStatus(reqs[c].op), None)]
    /\ UNCHANGED uniqueIndex

AbortKeepsWrites(c) ==
    /\ reqs[c].pc = "abort" /\ ~Responding
    /\ accounts' = CommittedAccounts(reqs[c].session)
    /\ transactions' = CommittedTransactions(reqs[c].session)
    /\ reqs' = [reqs EXCEPT ![c] = Response(@.op, @.body, 500, @.error)]
    /\ UNCHANGED <<debts, uniqueIndex>>

\* catch (error): await session.abortTransaction(); res.status(500)
\* Nothing the session wrote reaches the collections.
AbortTransaction(c) ==
    /\ reqs[c].pc = "abort" /\ ~Responding
    /\ reqs' = [reqs EXCEPT ![c] = Response(@.op, @.body, 500, @.error)]
    /\ UnchangedStore

-----------------------------------------------------------------------------
Init ==
    /\ accounts = EmptyMap
    /\ transactions = EmptyBag
    /\ debts = EmptyMap
    /\ uniqueIndex \in BOOLEAN
    /\ reqs = [c \in Clients |-> Idle]


\* The handler returns (finally: session.endSession()).
EndRequest(c) ==
    /\ reqs[c].pc = "done"
    /\ reqs' = [reqs EXCEPT ![c] = Idle]
    /\ UnchangedStore

-----------------------------------------------------------------------------
(* The requests clients send *)

\* Every shape of request: fields absent, zero and negative amounts, ids that
\* are no ObjectId ("Bob") or name no document.
Amounts == {-1, 0, 2}
Descriptions == {None, "desc"}
AccountRefs == {None, "Bob", NoSuchId} \cup AccountIds
AccountNumbers == {None, "A001", "A002"}
ExpenseBodies ==
    [description : Descriptions, amount : Amounts, amountType : {"number"},
     sourceAccount : AccountRefs]
IncomeBodies ==
    [description : Descriptions, amount : Amounts, amountType : {"number"},
     destinationAccount : AccountRefs]
SelfTransferBodies ==
    [description : Descriptions, amount : Amounts, amountType : {"number"},
     sourceAccount : AccountRefs, destinationAccount : AccountRefs]
\* newBalance of the body: a JSON number, a string that is no number, or absent.
NewBalances ==
    [kind : {"number"}, value : {-3, 0, 5}]
        \cup {[kind |-> "string", value |-> 0], [kind |-> "undefined", value |-> 0]}
AccountPathIds == {"Bob", NoSuchId} \cup AccountIds
DebtPathIds == {"Bob", NoSuchId} \cup DebtIds
NewStatuses == {None, "pending", "settled", "cancelled"}
\* Debts: the counterparty is named (debtor, creditor: free text, which may
\* be the text of an account's id) or referenced (debtorAccount,
\* creditorAccount).
DebtBodies ==
    [description : {"desc"}, totalAmount : {0, 5}, settledAmount : {0}, pendingAmount : {5},
     status : {None, "pending", "settled", "cancelled"},
     type : {"positive", "negative"},
     debtor : {None, "Bob", AccountOid[2]}, debtorAccount : {None, AccountOid[1]},
     creditor : {"Alice", AccountOid[2]}, creditorAccount : {None, AccountOid[1]}]
DebtTransactionBodies ==
    [description : Descriptions, amount : Amounts, amountType : {"number"},
     type : {None, "income", "debt", "refund"},
     sourceAccount : {None, AccountOid[1]}, debtId : DebtPathIds]

\* The well-formed requests: every field the route asks for, a nonzero
\* amount, ids of accounts and debts that may exist.
ValidAmounts == {-1, 2}
ValidExpenseBodies ==
    [description : {"desc"}, amount : ValidAmounts, amountType : {"number"},
     sourceAccount : AccountIds]
ValidIncomeBodies ==
    [description : {"desc"}, amount : ValidAmounts, amountType : {"number"},
     destinationAccount : AccountIds]
ValidSelfTransferBodies ==
    [description : {"desc"}, amount : ValidAmounts, amountType : {"number"},
     sourceAccount : AccountIds, destinationAccount : AccountIds]
ValidAccountNumbers == {"A001", "A002"}
ValidNewBalances == [kind : {"number"}, value : {5}]
ValidDebtBodies ==
    [description : {"desc"}, totalAmount : {5}, settledAmount : {0}, pendingAmount : {5},
     status : {"pending"}, type : {"positive", "negative"},
     debtor : {AccountOid[1]}, debtorAccount : {None},
     creditor : {AccountOid[1]}, creditorAccount : {None}]
ValidDebtTransactionBodies ==
    [description : {"desc"}, amount : ValidAmounts, amountType : {"number"},
     type : {"debt"},
     sourceAccount : {AccountOid[1]}, debtId : DebtIds]


\* The requests whose amount is a string holding a numeral ({"amount": "2"}),
\* otherwise well formed.
Numerals == {2}
NumeralExpenseBodies ==
    [description : {"desc"}, amount : Numerals, amountType : AmountTypes \ {"number"},
     sourceAccount : AccountIds]
NumeralIncomeBodies ==
    [description : {"desc"}, amount : Numerals, amountType : AmountTypes \ {"number"},
     destinationAccount : AccountIds]
NumeralSelfTransferBodies ==
    [description : {"desc"}, amount : Numerals, amountType : AmountTypes \ {"number"},
     sourceAccount : AccountIds, destinationAccount : AccountIds]

-----------------------------------------------------------------------------
(* Specifications *)

\* The whole service: requests of every route and every shape, handled
\* concurrently.
Next ==
    \E c \in Clients :
        \/ ExpenseRequest(c, ExpenseBodies \cup NumeralExpenseBodies)
        \/ ExpenseSave(c)
        \/ ExpenseFindSource(c)
        \/ ExpenseSaveSource(c)
        \/ IncomeRequest(c, IncomeBodies \cup NumeralIncomeBodies)
        \/ IncomeSave(c)
        \/ IncomeFindDestination(c)
        \/ IncomeSaveDestination(c)
        \/ SelfTransferRequest(c, SelfTransferBodies \cup NumeralSelfTransferBodies)
        \/ SelfTransferSave(c)
        \/ SelfTransferFindSource(c)
        \/ SelfTransferSaveSource(c)
        \/ SelfTransferFindDestination(c)
        \/ SelfTransferSaveDestination(c)
        \/ CreateAccountRequest(c, AccountNumbers)
        \/ CreateAccountSave(c)
        \/ UpdateBalanceRequest(c, AccountPathIds, NewBalances)
        \/ UpdateBalanceSave(c)
        \/ CreateDebt(c, DebtBodies)
        \/ UpdateStatusRequest(c, DebtPathIds, NewStatuses)
        \/ UpdateStatusSave(c)
        \/ DebtTransactionRequest(c, DebtTransactionBodies)
        \/ DebtTransactionFindDebt(c)
        \/ DebtTransactionSave(c)
        \/ DebtTransactionFindAccount(c)
        \/ DebtTransactionSaveAccount(c)
        \/ DebtTransactionSaveDebt(c)
        \/ CommitTransaction(c)
        \/ AbortTransaction(c)
        \/ EndRequest(c)

Spec == Init /\ [][Next]_vars

\* The specifications below are restrictions of Spec, each small enough to
\* explore in full: every behaviour of one of them is a behaviour of Spec.

\* The account and transaction routes, requests of every shape, handled one
\* at a time.
LedgerNext ==
    \E c \in {"c1"} :
        \/ ExpenseRequest(c, ExpenseBodies)
        \/ ExpenseSave(c)
        \/ ExpenseFindSource(c)
        \/ ExpenseSaveSource(c)
        \/ IncomeRequest(c, IncomeBodies)
        \/ IncomeSave(c)
        \/ IncomeFindDestination(c)
        \/ IncomeSaveDestination(c)
        \/ SelfTransferRequest(c, SelfTransferBodies)
        \/ SelfTransferSave(c)
        \/ SelfTransferFindSource(c)
        \/ SelfTransferSaveSource(c)
        \/ SelfTransferFindDestination(c)
        \/ SelfTransferSaveDestination(c)
        \/ CreateAccountRequest(c, AccountNumbers)
        \/ CreateAccountSave(c)
        \/ UpdateBalanceRequest(c, AccountPathIds, NewBalances)
        \/ UpdateBalanceSave(c)
        \/ CommitTransaction(c)
        \/ AbortTransaction(c)
        \/ EndRequest(c)

LedgerSpec == Init /\ [][LedgerNext]_vars

\* The routes that keep the ledger of an account (create-account, expense,
\* income, self-transfer), requests of every shape and amounts of both JSON
\* types, handled one at a time.
PostingNext ==
    \E c \in {"c1"} :
        \/ ExpenseRequest(c, ExpenseBodies \cup NumeralExpenseBodies)
        \/ ExpenseSave(c)
        \/ ExpenseFindSource(c)
        \/ ExpenseSaveSource(c)
        \/ IncomeRequest(c, IncomeBodies \cup NumeralIncomeBodies)
        \/ IncomeSave(c)
        \/ IncomeFindDestination(c)
        \/ IncomeSaveDestination(c)
        \/ SelfTransferRequest(c, SelfTransferBodies \cup NumeralSelfTransferBodies)
        \/ SelfTransferSave(c)
        \/ SelfTransferFindSource(c)
        \/ SelfTransferSaveSource(c)
        \/ SelfTransferFindDestination(c)
        \/ SelfTransferSaveDestination(c)
        \/ CreateAccountRequest(c, AccountNumbers)
        \/ CreateAccountSave(c)
        \/ CommitTransaction(c)
        \/ AbortTransaction(c)
        \/ EndRequest(c)

PostingSpec == Init /\ [][PostingNext]_vars

\* The debt routes over accounts, requests of every shape, handled one at a
\* time.
DebtNext ==
    \E c \in {"c1"} :
        \/ CreateAccountRequest(c, ValidAccountNumbers)
        \/ CreateAccountSave(c)
        \/ CreateDebt(c, DebtBodies)
        \/ UpdateStatusRequest(c, DebtPathIds, NewStatuses)
        \/ UpdateStatusSave(c)
        \/ DebtTransactionRequest(c, DebtTransactionBodies)
        \/ DebtTransactionFindDebt(c)
        \/ DebtTransactionSave(c)
        \/ DebtTransactionFindAccount(c)
        \/ DebtTransactionSaveAccount(c)
        \/ DebtTransactionSaveDebt(c)
        \/ CommitTransaction(c)
        \/ AbortTransaction(c)
        \/ EndRequest(c)

DebtSpec == Init /\ [][DebtNext]_vars

\* The routes that create documents, well-formed requests, handled
\* concurrently.
ConcurrentNext ==
    \E c \in Clients :
        \/ ExpenseRequest(c, ValidExpenseBodies)
        \/ ExpenseSave(c)
        \/ ExpenseFindSource(c)
        \/ ExpenseSaveSource(c)
        \/ IncomeRequest(c, ValidIncomeBodies)
        \/ IncomeSave(c)
        \/ IncomeFindDestination(c)
        \/ IncomeSaveDestination(c)
        \/ SelfTransferRequest(c, ValidSelfTransferBodies)
        \/ SelfTransferSave(c)
        \/ SelfTransferFindSource(c)
        \/ SelfTransferSaveSource(c)
        \/ SelfTransferFindDestination(c)
        \/ SelfTransferSaveDestination(c)
        \/ CreateAccountRequest(c, ValidAccountNumbers)
        \/ CreateAccountSave(c)
        \/ CreateDebt(c, ValidDebtBodies)
        \/ DebtTransactionRequest(c, ValidDebtTransactionBodies)
        \/ DebtTransactionFindDebt(c)
        \/ DebtTransactionSave(c)
        \/ DebtTransactionFindAccount(c)
        \/ DebtTransactionSaveAccount(c)
        \/ DebtTransactionSaveDebt(c)
        \/ CommitTransaction(c)
        \/ AbortTransaction(c)
        \/ EndRequest(c)

ConcurrentSpec == Init /\ [][ConcurrentNext]_vars

-----------------------------------------------------------------------------
(* Properties *)

\* The handler of client c takes a step.
Moved(c) == reqs'[c].pc # reqs[c].pc

\* The handler of client c commits its transaction in this step.
Commits(c, ops) ==
    /\ reqs[c].pc = "commit" /\ reqs[c].op \in ops
    /\ reqs'[c].pc = "done" /\ reqs'[c].status \in {200, 201}

\* Only the balance of account `id` changes, by `delta`; no account is added.
OnlyBalanceChanges(id, delta) ==
    /\ DOMAIN accounts' = DOMAIN accounts
    /\ id \in DOMAIN accounts
    /\ accounts'[id].balance = accounts[id].balance + delta
    /\ accounts'[id].accountNumber = accounts[id].accountNumber
    /\ \A other \in DOMAIN accounts \ {id} : accounts'[other] = accounts[other]

\* Exactly one Transaction document is added, and it is t.
OneTransactionAdded(t) ==
    /\ transactions' = transactions (+) SetToBag({t})
    /\ BagCardinality(transactions') = BagCardinality(transactions) + 1

Postings == {"expense", "income", "self-transfer"}

\* The accounts a posting request names.
NamedAccounts(r) ==
    CASE r.op = "expense" -> {r.body.sourceAccount}
      [] r.op = "income" -> {r.body.destinationAccount}
      [] r.op = "self-transfer" -> {r.body.sourceAccount, r.body.destinationAccount}

\* C3: a step of an expense, income or self-transfer handler changes the
\* accounts and the transactions only when it commits, and a request that
\* names an account that does not exist never commits: when it has finished,
\* no Transaction has been added and no balance has changed.
C3_MissingAccountRollsBack ==
    [][\A c \in Clients :
        (Moved(c) /\ (reqs[c].op \in Postings \/ reqs'[c].op \in Postings)) =>
            IF Commits(c, Postings)
            THEN NamedAccounts(reqs[c]) \subseteq DOMAIN accounts
            ELSE UNCHANGED <<accounts, transactions>>
    ]_vars

\* A self-transfer whose source exists and whose destination does not has
\* been aborted after the source was decremented inside the transaction.
C3_Witness ==
    \E c \in Clients :
        /\ reqs[c].pc = "abort" /\ reqs[c].op = "self-transfer"
        /\ reqs[c].error = "Destination account not found."
        /\ reqs[c].body.sourceAccount \in DOMAIN accounts
        /\ reqs[c].body.sourceAccount \in DOMAIN reqs[c].session.accountWrites
        /\ reqs[c].session.accountWrites[reqs[c].body.sourceAccount]
                # accounts[reqs[c].body.sourceAccount].balance
        /\ reqs[c].session.inserted # EmptyBag


\* The debt's totals grow by `amount`; nothing else of any debt changes.
OnlyTotalsChange(id, amount) ==
    /\ DOMAIN debts' = DOMAIN debts
    /\ debts'[id] = [debts[id] EXCEPT !.totalAmount = @ + amount,
                                      !.pendingAmount = @ + amount]
    /\ \A other \in DOMAIN debts \ {id} : debts'[other] = debts[other]

\* The account reference of the counterparty a debt's polarity selects.
CounterpartyAccount(debt) ==
    IF debt.type = "positive" THEN debt.debtorAccount ELSE debt.creditorAccount

\* A debt-transaction body with every required field in a form the
\* Transaction schema accepts.
WellFormedDebtTransaction(b) ==
    /\ b.description # None /\ b.amount # 0
    /\ b.type \in TransactionTypes
    /\ b.sourceAccount \in ObjectIds

\* C4: a debt-transaction request against an existing debt whose counterparty
\* account (debtorAccount of a positive debt, creditorAccount of a negative
\* one) exists is recorded: the balance of that account grows by the amount
\* for a positive debt and shrinks by it for a negative one, totalAmount and
\* pendingAmount grow by the amount, and exactly one Transaction naming the
\* debt is added.
C4_DebtTransactionRecorded ==
    [][\A c \in Clients :
        LET b == reqs[c].body IN
        (/\ reqs[c].op = "debt-transaction" /\ Moved(c) /\ reqs'[c].pc = "done"
         /\ WellFormedDebtTransaction(b)
         /\ b.debtId \in DOMAIN debts
         /\ CounterpartyAccount(debts[b.debtId]) \in DOMAIN accounts) =>
            /\ reqs'[c].status = 201
            /\ OnlyBalanceChanges(CounterpartyAccount(debts[b.debtId]),
                                  IF debts[b.debtId].type = "positive"
                                  THEN b.amount ELSE -b.amount)
            /\ OnlyTotalsChange(b.debtId, b.amount)
            /\ OneTransactionAdded([description |-> b.description, amount |-> b.amount,
                                    type |-> b.type, sourceAccount |-> b.sourceAccount,
                                    destinationAccount |-> None, debt |-> b.debtId])
    ]_vars

\* C7: a debt's status is always pending or settled, and it changes only in
\* the save of an update-status request on that debt, to the newStatus of
\* the request, which is pending or settled; a request with another value
\* gets status 400 and never reaches the save.
C7_StatusOnlyByUpdate ==
    [][/\ \A d \in DOMAIN debts' : debts'[d].status \in {"pending", "settled"}
       /\ \A d \in DOMAIN debts :
            debts'[d].status # debts[d].status =>
                \E c \in Clients :
                    /\ reqs[c].op = "update-status" /\ reqs[c].pc = "save"
                    /\ reqs[c].body.debtId = d
                    /\ reqs[c].body.newStatus \in {"pending", "settled"}
                    /\ debts'[d].status = reqs[c].body.newStatus
                    /\ reqs'[c].pc = "done" /\ reqs'[c].status = 200
       /\ \A c \in Clients :
            (/\ reqs'[c].op = "update-status" /\ Moved(c) /\ reqs[c].pc = "idle"
             /\ reqs'[c].body.newStatus \notin {"pending", "settled"}) =>
                /\ reqs'[c].pc = "done" /\ reqs'[c].status = 400
                /\ UNCHANGED debts
    ]_vars

\* A debt's status has been changed by an update-status request after a
\* debt transaction was recorded against it.
C7_Witness ==
    \E c \in Clients :
        /\ reqs[c].pc = "done" /\ reqs[c].op = "update-status" /\ reqs[c].status = 200
        /\ debts[reqs[c].body.debtId].status = "settled"
        /\ \E t \in BagToSet(transactions) : t.debt = reqs[c].body.debtId

\* C10: every persisted Transaction carries exactly the account references
\* of its type: an expense a sourceAccount only, an income a
\* destinationAccount only, a self-transfer both.
C10_RelevantReferences ==
    \A t \in BagToSet(transactions) :
        /\ t.type = "expense" => t.sourceAccount # None /\ t.destinationAccount = None
        /\ t.type = "income" => t.destinationAccount # None /\ t.sourceAccount = None
        /\ t.type = "self-transfer" => t.sourceAccount # None /\ t.destinationAccount # None


\* The Transaction document a request in flight persists when it commits.
TransactionOf(r) ==
    CASE r.op = "expense" -> ExpenseTransaction(r.body)
      [] r.op = "income" -> IncomeTransaction(r.body)
      [] r.op = "self-transfer" -> SelfTransferTransaction(r.body)
      [] r.op = "debt-transaction" -> DebtTransactionTransaction(r.body)

\* The signed amount a persisted Transaction stands for on account `id`: a
\* debt transaction moves the account its debt selects, the others credit
\* their destinationAccount and debit their sourceAccount.
Effect(t, id) ==
    IF t.debt # None
    THEN IF AccountToUpdate(debts[t.debt]) # id THEN 0
         ELSE IF IsPositiveDebt(debts[t.debt]) THEN t.amount ELSE -t.amount
    ELSE (IF t.destinationAccount = id THEN t.amount ELSE 0)
            - (IF t.sourceAccount = id THEN t.amount ELSE 0)

RECURSIVE SumOfEffects(_, _)
SumOfEffects(ts, id) ==
    IF ts = {} THEN 0
    ELSE LET t == CHOOSE x \in ts : TRUE
         IN  CopiesIn(t, transactions) * Effect(t, id) + SumOfEffects(ts \ {t}, id)

\* Every balance is the signed sum of the persisted Transactions (accounts
\* start at 0).
BalancesMatchTransactions ==
    \A id \in DOMAIN accounts :
        accounts[id].balance = SumOfEffects(BagToSet(transactions), id)

\* A step writes all of one request's documents, or none of any request's.
AllOrNothing ==
    \/ /\ transactions' = transactions
       /\ \A id \in DOMAIN accounts : accounts'[id] = accounts[id]
       /\ \A d \in DOMAIN debts : debts'[d] = debts[d]
    \/ \E c \in Clients :
        LET t == TransactionOf(reqs[c]) IN
        /\ Commits(c, TransactionOps)
        /\ OneTransactionAdded(t)
        /\ DOMAIN accounts' = DOMAIN accounts
        /\ \A id \in DOMAIN accounts :
            /\ accounts'[id].balance = accounts[id].balance + Effect(t, id)
            /\ accounts'[id].accountNumber = accounts[id].accountNumber
        /\ IF t.debt # None THEN OnlyTotalsChange(t.debt, t.amount) ELSE debts' = debts

C6_UniqueAccountNumbers ==
    /\ \A a \in DOMAIN accounts, b \in DOMAIN accounts :
            a # b => accounts[a].accountNumber # accounts[b].accountNumber
    /\ \A c \in Clients :
            (/\ reqs[c].pc = "done" /\ reqs[c].op = "create-account"
             /\ reqs[c].status # 201) => reqs[c].status = 400

\* C8: a self-transfer request with a nonzero amount and two existing
\* accounts but no description is accepted and commits (no other request is
\* in flight, so nothing else can make it fail).
C8_DescriptionOptional ==
    \A c \in Clients :
        (/\ reqs[c].pc = "done" /\ reqs[c].op = "self-transfer"
         /\ reqs[c].body.description = None
         /\ reqs[c].body.amount # 0
         /\ reqs[c].body.sourceAccount \in DOMAIN accounts
         /\ reqs[c].body.destinationAccount \in DOMAIN accounts) =>
            /\ reqs[c].status = 200
            /\ SelfTransferTransaction(reqs[c].body) \in BagToSet(transactions)

\* C9: an update-balance request with a numeric newBalance (zero and
\* negative included) on an existing account is answered 200 and leaves the
\* balance at newBalance; a non-numeric newBalance is answered 400 and a
\* numeric one on an absent account 404 (no other request is in flight).
C9_UpdateBalance ==
    \A c \in Clients :
        LET b == reqs[c].body IN
        (reqs[c].pc = "done" /\ reqs[c].op = "update-balance") =>
            IF b.newBalance.kind # "number" THEN reqs[c].status = 400
            ELSE IF b.accountId \in DOMAIN accounts
            THEN reqs[c].status = 200 /\ accounts[b.accountId].balance = b.newBalance.value
            ELSE CastsToObjectId(b.accountId) => reqs[c].status = 404

\* C11: every persisted Transaction has an amount strictly greater than
\* zero: no request with a zero or negative amount is persisted.
C11_PositiveAmounts ==
    \A t \in BagToSet(transactions) : t.amount > 0

\* The sum of the amounts of the persisted Transactions in `ts`, each counted
\* as often as it is stored.
RECURSIVE SumOfAmounts(_)
SumOfAmounts(ts) ==
    IF ts = {} THEN 0
    ELSE LET t == CHOOSE x \in ts : TRUE
         IN  CopiesIn(t, transactions) * t.amount + SumOfAmounts(ts \ {t})

NamingAsDestination(id) == {t \in BagToSet(transactions) : t.destinationAccount = id}

NamingAsSource(id) == {t \in BagToSet(transactions) : t.sourceAccount = id}

\* C12: after any sequence of create-account, expense, income and
\* self-transfer requests, every account's balance is the sum of the amounts
\* of the persisted Transactions naming it as destinationAccount minus the
\* sum of the amounts of those naming it as sourceAccount.
C12_BalanceIsLedgerSum ==
    \A id \in DOMAIN accounts :
        accounts[id].balance =
            SumOfAmounts(NamingAsDestination(id)) - SumOfAmounts(NamingAsSource(id))

=============================================================================
